---- MODULE Spec2Model ----
(***************************************************************************)
(* HotQueue (src/hotqueue.py): a FIFO queue (HotQueue) and a LIFO stack    *)
(* (HotStack) kept in a Redis list.  The model holds the Redis lists, one  *)
(* adapter instance per client, and each client's position inside the      *)
(* method it is running.  Every Redis command is one atomic step; the      *)
(* Python code between two commands runs with the command that follows it. *)
(***************************************************************************)
EXTENDS Integers, Sequences, FiniteSets, Bags, TLC

(* ------------------------------ bounds -------------------------------- *)
\* client processes that push, and client processes that pop, when the two
\* are run side by side; each client owns one adapter instance
NProducers == 2
NConsumers == 2
\* message values other than None are <<1>> .. <<NumValues>>
NumValues == 2
\* most messages passed to one put / put_head call
MaxMsgs == 2
\* most calls a client makes when it chooses its calls freely
MaxCalls == 2
\* largest finite timeout (seconds) passed to get
MaxTimeout == 1

(* --------------------------- Python values ---------------------------- *)
\* Python's None.  Every value that may be None is a tuple: None is the
\* empty one, the integer n is <<n>>.
None == <<>>
\* a value no serializer can encode (a lambda, an open socket)
Unencodable == <<0>>
Values == {None, Unencodable} \cup {<<i>> : i \in 1..NumValues}
Producers == 1..NProducers
Consumers == (NProducers + 1)..(NProducers + NConsumers)
Clients == Producers \cup Consumers
Names == {"a", "b"}
Classes == {"HotQueue", "HotStack"}
Serializers == {"pickle", "json"}

\* keyword arguments are a function from the names given to their values
NoKwargs == <<>>
setdefault_overwrite(kw, k, v) == (k :> v) @@ kw
setdefault(kw, k, v) == IF k \in DOMAIN kw THEN kw ELSE kw @@ (k :> v)

RECURSIVE Reverse(_)
Reverse(s) == IF s = <<>> THEN <<>> ELSE Append(Reverse(Tail(s)), Head(s))
Front(s) == SubSeq(s, 1, Len(s) - 1)
Last(s) == s[Len(s)]
SeqsUpTo(S, n) == UNION {[1..k -> S] : k \in 0..n}

(* ----------------------------- serializer ----------------------------- *)
\* serializer.dumps: the bytes pushed to Redis name the format that wrote
\* them and hold the value; serializer.loads reads them back, and fails on
\* bytes another format wrote.
CanDump(ser, v) == v # Unencodable
dumps(ser, v) == <<ser, v>>
CanLoad(ser, raw) == raw[1] = ser
loads(ser, raw) == raw[2]

(* ------------------------------- naming ------------------------------- *)
key_for_name_shared(name) == "hotqueue:"
key_for_name(name) == "hotqueue:" \o name
Keys == {key_for_name(n) : n \in Names}

\* the class attributes that pick the end of the list that is popped
redis_pop_method_rpop(cls) == "rpop"
redis_pop_method_lpop(cls) == "lpop"
redis_pop_method(cls) == IF cls = "HotStack" THEN "rpop" ELSE "lpop"
redis_block_pop_method(cls) == IF cls = "HotStack" THEN "brpop" ELSE "blpop"

VARIABLES
  store,    \* Redis: key -> its list (a key with no element does not exist)
  inst,     \* client -> the adapter it constructed: [name, cls, serializer]
  pc,       \* client -> where it is: idle, put, put_head, get, consume, yielded
  frame,    \* client -> the call it is running: [via, msgs, kwargs, timeout, waited]
  result,   \* client -> how its last call ended: [op, val, exc]
  outs,     \* client -> the messages get returned / consume yielded to it, in order
  script,   \* client -> the calls it was started to make, in order (may be none)
  ip,       \* client -> index in script of its next call
  budget,   \* client -> calls it may still choose freely
  menu,     \* client -> the calls its program chooses from (never changes)
  arrived,  \* key -> the pushes that reached Redis, in order: [by, val]
  npop,     \* key -> elements removed by pop commands so far
  cleared   \* key -> whether a delete command was ever issued for it

vars == <<store, inst, pc, frame, result, outs, script, ip, budget, menu, arrived, npop, cleared>>

(* --------------------------- the Redis server ------------------------- *)
\* LRANGE key 0 -1: an absent key reads as the empty list
lrange(key) == IF key \in DOMAIN store THEN store[key] ELSE <<>>
llen(key) == Len(lrange(key))
\* the store with key's list set to l; Redis drops a key whose list is empty
WithList(key, l) ==
  IF l = <<>>
  THEN [k \in DOMAIN store \ {key} |-> store[k]]
  ELSE [k \in DOMAIN store \cup {key} |-> IF k = key THEN l ELSE store[k]]
rpush_at_head(key, raw) == WithList(key, <<raw>> \o lrange(key))
rpush(key, raw) == WithList(key, Append(lrange(key), raw))
lpush_at_tail(key, raw) == WithList(key, Append(lrange(key), raw))
lpush(key, raw) == WithList(key, <<raw>> \o lrange(key))
delete_head(key) == WithList(key, IF lrange(key) = <<>> THEN <<>> ELSE Tail(lrange(key)))
delete(key) == WithList(key, <<>>)
\* LPOP / RPOP (and what BLPOP / BRPOP take once the list has an element):
\* the element popped, None on an empty list, and the store afterwards
Popped(method, key) ==
  IF lrange(key) = <<>> THEN None
  ELSE IF method \in {"rpop", "brpop"} THEN Last(lrange(key)) ELSE Head(lrange(key))
AfterPop_peek(method, key) == store
AfterPop(method, key) ==
  IF lrange(key) = <<>> THEN store
  ELSE IF method \in {"rpop", "brpop"} THEN WithList(key, Front(lrange(key)))
       ELSE WithList(key, Tail(lrange(key)))

(* ------------------------------ adapters ------------------------------ *)
\* the key property, and the serializer the constructor kept
Key(c) == key_for_name(inst[c].name)
Ser(c) == inst[c].serializer

\* __len__: LLEN of the adapter's key.  (A slip: the name instead of the key.)
len_of_name(c) == llen(inst[c].name)
len(c) == llen(Key(c))

\* frame[c] describes the call client c is running: the method
\* the client called (via), the messages put has still to push, the
\* keywords get runs with, the timeout handed to the blocking pop, and
\* whether that pop found the list empty and suspended the client
NoFrame == [via |-> "", msgs |-> <<>>, kwargs |-> NoKwargs, timeout |-> 0, waited |-> FALSE]
NoResult == [op |-> "", val |-> None, exc |-> "none"]

Call(op, msgs, kwargs) == [op |-> op, msgs |-> msgs, kwargs |-> kwargs]

MsgSeqs == SeqsUpTo(Values, MaxMsgs)
\* what a freely calling client pushes: any run of consecutive messages of
\* <<1>>, <<2>>, ..., None
FreeMsgs == [i \in 1..MaxMsgs |-> IF i = MaxMsgs THEN None ELSE <<i>>]
FreeMsgSeqs == {SubSeq(FreeMsgs, i, j) : i \in 1..(MaxMsgs + 1), j \in 0..MaxMsgs}
FreeCalls ==
  {Call(op, m, NoKwargs) : op \in {"put", "put_head"}, m \in FreeMsgSeqs}
    \cup {Call("get", <<>>, kw) :
            kw \in {NoKwargs, [block |-> TRUE], [block |-> TRUE, timeout |-> <<MaxTimeout>>]}}
    \cup {Call(op, <<>>, NoKwargs) : op \in {"clear", "len"}}
\* the budget of a client whose program may call without end
Unlimited == 0 - 1
\* the calls a client may make now: the next one of its script, or, with no
\* script, any call of its menu while its budget lasts.  A scripted client
\* stops at the first exception that reaches it.
Offered(c) ==
  IF script[c] # <<>>
  THEN IF ip[c] <= Len(script[c]) /\ result[c].exc = "none" THEN {script[c][ip[c]]} ELSE {}
  ELSE IF budget[c] # 0 THEN menu[c] ELSE {}
Advance(c) ==
  IF script[c] # <<>>
  THEN ip' = [ip EXCEPT ![c] = @ + 1] /\ UNCHANGED <<script, budget, menu>>
  ELSE /\ budget' = [budget EXCEPT ![c] = IF @ = Unlimited THEN @ ELSE @ - 1]
       /\ UNCHANGED <<script, ip, menu>>

\* the call returns val to the client's code
Return(c, op, val) ==
  /\ pc' = [pc EXCEPT ![c] = "idle"]
  /\ frame' = [frame EXCEPT ![c] = NoFrame]
  /\ result' = [result EXCEPT ![c] = [op |-> op, val |-> val, exc |-> "none"]]
\* the call ends with exception exc raised to the client's code
Raise(c, op, exc) ==
  /\ pc' = [pc EXCEPT ![c] = "idle"]
  /\ frame' = [frame EXCEPT ![c] = NoFrame]
  /\ result' = [result EXCEPT ![c] = [op |-> op, val |-> None, exc |-> exc]]
\* the call goes on
Running(c, at) ==
  /\ pc' = [pc EXCEPT ![c] = at]
  /\ result' = [result EXCEPT ![c] = NoResult]

(* -------------------------------- put --------------------------------- *)
\* put(*msgs) is called.  With no message the loop body never runs.
Put(c) ==
  /\ pc[c] = "idle"
  /\ \E call \in Offered(c) :
       /\ call.op = "put"
       /\ IF call.msgs = <<>>
          THEN Return(c, "put", None)
          ELSE /\ Running(c, "put")
               /\ frame' = [frame EXCEPT ![c] = [NoFrame EXCEPT !.via = "put", !.msgs = call.msgs]]
  /\ Advance(c)
  /\ UNCHANGED <<store, inst, outs, arrived, npop, cleared>>

\* (A slip: all the messages go to Redis in one command, RPUSH key m1 .. mk.)
PushLoop_atomic(c, op, cmd) ==
  /\ LET msgs == frame[c].msgs
         raws == [i \in 1..Len(msgs) |-> dumps(Ser(c), msgs[i])]
     IN IF \E i \in 1..Len(msgs) : ~CanDump(Ser(c), msgs[i])
        THEN /\ Raise(c, op, "SerializationError")
             /\ UNCHANGED <<store, arrived>>
        ELSE /\ store' = IF cmd = "lpush" THEN WithList(Key(c), Reverse(raws) \o lrange(Key(c)))
                                          ELSE WithList(Key(c), lrange(Key(c)) \o raws)
             /\ arrived' = [arrived EXCEPT ![Key(c)] =
                              @ \o [i \in 1..Len(msgs) |-> [by |-> c, val |-> msgs[i]]]]
             /\ Return(c, op, None)
  /\ UNCHANGED <<inst, outs, script, ip, budget, menu, npop, cleared>>

\* one turn of the loop of put (cmd rpush) and of put_head (cmd lpush):
\* dumps the next message and push it with one command
PushLoop(c, op, cmd) ==
  /\ LET msg == Head(frame[c].msgs)
         rest == Tail(frame[c].msgs)
     IN IF ~CanDump(Ser(c), msg)
        THEN /\ Raise(c, op, "SerializationError")
             /\ UNCHANGED <<store, arrived>>
        ELSE /\ store' = IF cmd = "lpush" THEN lpush(Key(c), dumps(Ser(c), msg))
                                          ELSE rpush(Key(c), dumps(Ser(c), msg))
             /\ arrived' = [arrived EXCEPT ![Key(c)] = Append(@, [by |-> c, val |-> msg])]
             /\ IF rest = <<>>
                THEN Return(c, op, None)
                ELSE /\ frame' = [frame EXCEPT ![c].msgs = rest]
                     /\ UNCHANGED <<pc, result>>
  /\ UNCHANGED <<inst, outs, script, ip, budget, menu, npop, cleared>>

\* (A slip: a message that cannot be serialized is passed over.)
PutStep_skip(c) ==
  /\ pc[c] = "put"
  /\ IF CanDump(Ser(c), Head(frame[c].msgs))
     THEN PushLoop(c, "put", "rpush")
     ELSE /\ IF Tail(frame[c].msgs) = <<>>
             THEN Return(c, "put", None)
             ELSE /\ frame' = [frame EXCEPT ![c].msgs = Tail(@)]
                  /\ UNCHANGED <<pc, result>>
          /\ UNCHANGED <<store, inst, outs, script, ip, budget, menu, arrived, npop, cleared>>
PutStep(c) ==
  /\ pc[c] = "put"
  /\ PushLoop(c, "put", "rpush")

(* ------------------------------ put_head ------------------------------ *)
PutHead(c) ==
  /\ pc[c] = "idle"
  /\ \E call \in Offered(c) :
       /\ call.op = "put_head"
       /\ IF call.msgs = <<>>
          THEN Return(c, "put_head", None)
          ELSE /\ Running(c, "put_head")
               /\ frame' = [frame EXCEPT ![c] = [NoFrame EXCEPT !.via = "put_head", !.msgs = call.msgs]]
  /\ Advance(c)
  /\ UNCHANGED <<store, inst, outs, arrived, npop, cleared>>

PutHeadStep_rpush(c) ==
  /\ pc[c] = "put_head"
  /\ PushLoop(c, "put_head", "rpush")
PutHeadStep(c) ==
  /\ pc[c] = "put_head"
  /\ PushLoop(c, "put_head", "lpush")

(* -------------------------------- get --------------------------------- *)
\* get hands msg (a message, or None) back.  Called by the client it is the
\* call's return value.  Called by consume's loop, None breaks the loop and
\* the generator ends; anything else is yielded and the generator is
\* suspended while the consumer's loop body (the worker's handler) runs.
GetReturns(c, via, msg, took) ==
  IF via = "get"
  THEN /\ Return(c, "get", msg)
       /\ outs' = [outs EXCEPT ![c] = IF took THEN Append(@, [val |-> msg, via |-> via]) ELSE @]
  ELSE IF msg = None
       THEN /\ Return(c, via, None)
            /\ UNCHANGED outs
       ELSE /\ Running(c, "yielded")
            /\ frame' = [frame EXCEPT ![c].timeout = 0, ![c].waited = FALSE]
            /\ outs' = [outs EXCEPT ![c] = Append(@, [val |-> msg, via |-> via])]

\* the end of get: raw is what the pop command gave (None, or the bytes);
\* bytes are passed to loads, whose exception is not caught anywhere
Deserialize_unguarded(c, via, raw) ==
  IF raw # None /\ CanLoad(Ser(c), raw)
  THEN GetReturns(c, via, loads(Ser(c), raw), TRUE)
  ELSE /\ Raise(c, via, "DeserializationError")
       /\ UNCHANGED outs
Deserialize(c, via, raw) ==
  IF raw # None
  THEN IF CanLoad(Ser(c), raw)
       THEN GetReturns(c, via, loads(Ser(c), raw), TRUE)
       ELSE /\ Raise(c, via, "DeserializationError")
            /\ UNCHANGED outs
  ELSE GetReturns(c, via, None, FALSE)

\* the timeout get hands to the blocking pop: None becomes 0, and Redis
\* waits without limit on 0
redis_timeout_one(timeout) == IF timeout = None THEN 1 ELSE timeout[1]
redis_timeout(timeout) == IF timeout = None THEN 0 ELSE timeout[1]

\* (A slip: the non-blocking pop takes the element only once it decoded.)
get_decode_first(c, via, kw) ==
  LET block == IF "block" \in DOMAIN kw THEN kw.block ELSE FALSE
      timeout == IF "timeout" \in DOMAIN kw THEN kw.timeout ELSE None
  IN IF block
     THEN /\ frame' = [frame EXCEPT ![c] =
                         [NoFrame EXCEPT !.via = via, !.kwargs = kw,
                                         !.timeout = redis_timeout(timeout),
                                         !.waited = (lrange(Key(c)) = <<>>)]]
          /\ Running(c, "get")
          /\ UNCHANGED <<store, outs, npop>>
     ELSE LET method == redis_pop_method(inst[c].cls)
              raw == Popped(method, Key(c))
              taken == raw # None /\ CanLoad(Ser(c), raw)
          IN /\ store' = IF taken THEN AfterPop(method, Key(c)) ELSE store
             /\ npop' = [npop EXCEPT ![Key(c)] = IF taken THEN @ + 1 ELSE @]
             /\ Deserialize(c, via, raw)

\* get(block=False, timeout=None) run by client c for `via` with keywords kw
get(c, via, kw) ==
  LET block == IF "block" \in DOMAIN kw THEN kw.block ELSE FALSE
      timeout == IF "timeout" \in DOMAIN kw THEN kw.timeout ELSE None
  IN IF block
     THEN \* the blocking pop command is sent; its reply is another step
          /\ frame' = [frame EXCEPT ![c] =
                         [NoFrame EXCEPT !.via = via, !.kwargs = kw,
                                         !.timeout = redis_timeout(timeout),
                                         !.waited = (lrange(Key(c)) = <<>>)]]
          /\ Running(c, "get")
          /\ UNCHANGED <<store, outs, npop>>
     ELSE LET method == redis_pop_method(inst[c].cls)
              raw == Popped(method, Key(c))
          IN /\ store' = AfterPop(method, Key(c))
             /\ npop' = [npop EXCEPT ![Key(c)] = IF raw = None THEN @ ELSE @ + 1]
             /\ Deserialize(c, via, raw)

\* the client calls get(**kwargs)
Get(c) ==
  /\ pc[c] = "idle"
  /\ \E call \in Offered(c) :
       /\ call.op = "get"
       /\ get(c, "get", call.kwargs)
  /\ Advance(c)
  /\ UNCHANGED <<inst, arrived, cleared>>

\* Redis answers a blocking pop with an element: (key, bytes)
BlockingPop(c) ==
  /\ pc[c] = "get"
  /\ lrange(Key(c)) # <<>>
  /\ LET method == redis_block_pop_method(inst[c].cls)
         msg == <<Key(c), Popped(method, Key(c))>>
     IN /\ store' = AfterPop(method, Key(c))
        /\ npop' = [npop EXCEPT ![Key(c)] = @ + 1]
        /\ Deserialize(c, frame[c].via, msg[2])
  /\ UNCHANGED <<inst, script, ip, budget, menu, arrived, cleared>>

\* Redis answers a blocking pop with nothing: the timeout ran out on an
\* empty list.  A timeout of 0 never runs out.
BlockingTimeout(c) ==
  /\ pc[c] = "get"
  /\ lrange(Key(c)) = <<>>
  /\ frame[c].timeout > 0
  /\ Deserialize(c, frame[c].via, None)
  /\ UNCHANGED <<store, inst, script, ip, budget, menu, arrived, npop, cleared>>

(* ---------------------------- clear, len ------------------------------ *)
Clear(c) ==
  /\ pc[c] = "idle"
  /\ \E call \in Offered(c) : call.op = "clear"
  /\ store' = delete(Key(c))
  /\ cleared' = [cleared EXCEPT ![Key(c)] = TRUE]
  /\ Return(c, "clear", None)
  /\ Advance(c)
  /\ UNCHANGED <<inst, outs, arrived, npop>>

Length(c) ==
  /\ pc[c] = "idle"
  /\ \E call \in Offered(c) : call.op = "len"
  /\ Return(c, "len", <<len(c)>>)
  /\ Advance(c)
  /\ UNCHANGED <<store, inst, outs, arrived, npop, cleared>>

(* -------------------------- consume, worker --------------------------- *)
\* consume(**kwargs) is called and iterated by the client's for loop:
\* block defaults to True, and the generator is at the top of its loop
Consume(c) ==
  /\ pc[c] = "idle"
  /\ \E call \in Offered(c) :
       /\ call.op = "consume"
       /\ frame' = [frame EXCEPT ![c] =
                      [NoFrame EXCEPT !.via = "consume",
                                      !.kwargs = setdefault(call.kwargs, "block", TRUE)]]
  /\ Running(c, "consume")
  /\ Advance(c)
  /\ UNCHANGED <<store, inst, outs, arrived, npop, cleared>>

\* worker(*args, **kwargs): decorator(handler) makes the wrapper, a
\* closure over the handler and worker's kwargs.  Given the handler as its
\* argument (@queue.worker) worker returns the wrapper; given none
\* (@queue.worker(timeout=1)) it returns the decorator, which the caller
\* then applies to the handler.
handler == <<1>>
decorator(kwargs, h) == [kind |-> "wrapper", worker |-> h, kwargs |-> kwargs]
worker(args, kwargs) ==
  IF args # <<>> THEN decorator(kwargs, args[1]) ELSE [kind |-> "decorator", kwargs |-> kwargs]
\* the wrapper a client gets from a worker call with these arguments
Wrapper(args, kwargs) ==
  LET made == worker(args, kwargs)
  IN IF made.kind = "decorator" THEN decorator(made.kwargs, handler) ELSE made

\* the wrapper is called (the call's msgs are worker's positional
\* arguments): it iterates consume(**kwargs) and calls the handler with
\* every message
Worker(c) ==
  /\ pc[c] = "idle"
  /\ \E call \in Offered(c) :
       /\ call.op = "worker"
       /\ frame' = [frame EXCEPT ![c] =
                      [NoFrame EXCEPT !.via = "worker",
                                      !.kwargs = setdefault(Wrapper(call.msgs, call.kwargs).kwargs,
                                                            "block", TRUE)]]
  /\ Running(c, "consume")
  /\ Advance(c)
  /\ UNCHANGED <<store, inst, outs, arrived, npop, cleared>>

\* the generator's loop: msg = self.get(**kwargs)
ConsumeGet(c) ==
  /\ pc[c] = "consume"
  /\ get(c, frame[c].via, frame[c].kwargs)
  /\ UNCHANGED <<inst, script, ip, budget, menu, arrived, cleared>>

\* the consumer's loop body (the handler) is done and asks for the next
\* message: the generator resumes after its yield
Resume_return(c) ==
  /\ pc[c] = "yielded"
  /\ IF frame[c].via = "worker"
     THEN Return(c, "worker", None)
     ELSE pc' = [pc EXCEPT ![c] = "consume"] /\ UNCHANGED <<frame, result>>
  /\ UNCHANGED <<store, inst, outs, script, ip, budget, menu, arrived, npop, cleared>>
Resume(c) ==
  /\ pc[c] = "yielded"
  /\ pc' = [pc EXCEPT ![c] = "consume"]
  /\ UNCHANGED <<store, inst, frame, result, outs, script, ip, budget, menu, arrived, npop, cleared>>

(* ----------------------------- interrupt ------------------------------ *)
\* KeyboardInterrupt is raised in client c at the point it is executing.
\* consume's try block spans the generator's own code, get included; while
\* the generator is suspended at its yield the exception is raised in the
\* code that iterates it.
KeyboardInterrupt(c) ==
  /\ pc[c] # "idle"
  /\ IF frame[c].via \in {"consume", "worker"} /\ pc[c] \in {"consume", "get"}
     THEN Return(c, frame[c].via, None)
     ELSE Raise(c, frame[c].via, "KeyboardInterrupt")
  /\ UNCHANGED <<store, inst, outs, script, ip, budget, menu, arrived, npop, cleared>>

(* --------------------------- specifications --------------------------- *)
Instances == [name : Names, cls : Classes, serializer : Serializers]
HotQueue(name, serializer) == [name |-> name, cls |-> "HotQueue", serializer |-> serializer]
HotStack(name, serializer) == [name |-> name, cls |-> "HotStack", serializer |-> serializer]

\* the state once every client has constructed its adapter: construction
\* sends no command, and no list exists yet
Constructed(insts, scripts, budgets, menus) ==
  /\ store = <<>>
  /\ inst \in insts
  /\ pc = [c \in Clients |-> "idle"]
  /\ frame = [c \in Clients |-> NoFrame]
  /\ result = [c \in Clients |-> NoResult]
  /\ outs = [c \in Clients |-> <<>>]
  /\ script \in scripts
  /\ ip = [c \in Clients |-> 1]
  /\ budget \in budgets
  /\ menu \in menus
  /\ arrived = [k \in Keys |-> <<>>]
  /\ npop = [k \in Keys |-> 0]
  /\ cleared = [k \in Keys |-> FALSE]

\* Sequential use: client 1 alone fills a list with put(P) and put_head(H)
\* and then empties it, by as many get calls as it pushed messages or by
\* iterating consume; no other client acts.
OnlyClient1(S) == {[c \in Clients |-> IF c = 1 THEN sc ELSE <<>>] : sc \in S}
Gets(n, kw) == [i \in 1..n |-> Call("get", <<>>, kw)]
SeqFills ==
  {<<Call("put", PH[1], NoKwargs), Call("put_head", PH[2], NoKwargs)>> :
     PH \in {ph \in MsgSeqs \X MsgSeqs : Len(ph[1]) + Len(ph[2]) <= MaxMsgs + 1}}
SeqScripts ==
  {f \o Gets(Len(f[1].msgs) + Len(f[2].msgs), kw) :
     f \in SeqFills, kw \in {NoKwargs, [block |-> TRUE]}}
    \cup {Append(f, Call("consume", <<>>, kw)) :
            f \in SeqFills,
            kw \in {[block |-> FALSE]} \cup {[timeout |-> <<t>>] : t \in 1..MaxTimeout}}
SeqInsts ==
  {[c \in Clients |-> IF c = 1 THEN i ELSE HotQueue("b", "pickle")] :
     i \in {j \in Instances : j.name = "a"}}
InitSeq ==
  Constructed(SeqInsts, OnlyClient1(SeqScripts), {[c \in Clients |-> 0]}, {[c \in Clients |-> {}]})
NextSeq ==
  \E c \in Clients :
    \/ Put(c) \/ PutStep(c) \/ PutHead(c) \/ PutHeadStep(c)
    \/ Get(c) \/ BlockingPop(c) \/ BlockingTimeout(c)
    \/ Consume(c) \/ ConsumeGet(c) \/ Resume(c)
SpecSeq == InitSeq /\ [][NextSeq]_vars

(* ------------------------- iterating clients ------------------------ *)
\* One producer puts once; every consumer iterates consume, itself or
\* through a worker wrapper, once; KeyboardInterrupt may reach any client
\* that is inside a call.
IterMenu ==
  {Call(op, <<>>, kw) :
     op \in {"consume", "worker"},
     kw \in {NoKwargs, [block |-> FALSE], [timeout |-> <<MaxTimeout>>]}}
IterInsts == {[c \in Clients |-> i] : i \in {j \in Instances : j.name = "a" /\ j.serializer = "pickle"}}
InitIter ==
  Constructed(IterInsts,
              {[c \in Clients |-> <<>>]},
              {[c \in Clients |-> IF c = 1 \/ c \in Consumers THEN 1 ELSE 0]},
              {[c \in Clients |-> IF c \in Producers
                                  THEN {Call("put", m, NoKwargs) : m \in FreeMsgSeqs}
                                  ELSE IterMenu]})
NextIter ==
  \E c \in Clients :
    \/ Put(c) \/ PutStep(c)
    \/ Consume(c) \/ Worker(c) \/ ConsumeGet(c) \/ Resume(c)
    \/ BlockingPop(c) \/ BlockingTimeout(c)
    \/ KeyboardInterrupt(c)
SpecIter == InitIter /\ [][NextIter]_vars

(* -------------------------- blocking clients -------------------------- *)
\* Every consumer makes one blocking get, with no timeout, None, 0 or a
\* finite one; every producer makes one put.  Redis answers a suspended
\* pop once the list has an element: BlockingPop is weakly fair.
BlockingKwargs ==
  {[block |-> TRUE]} \cup {[block |-> TRUE, timeout |-> t] : t \in {None} \cup {<<t>> : t \in 0..MaxTimeout}}
LiveScripts ==
  {f \in [Clients -> {<<>>} \cup {<<Call("get", <<>>, kw)>> : kw \in BlockingKwargs}] :
     \A c \in Clients : f[c] = <<>> <=> c \in Producers}
LiveInsts == {[c \in Clients |-> i] : i \in {j \in Instances : j.name = "a" /\ j.serializer = "pickle"}}
InitLive ==
  Constructed(LiveInsts,
              LiveScripts,
              {[c \in Clients |-> IF c \in Producers THEN 1 ELSE 0]},
              {[c \in Clients |-> {Call("put", m, NoKwargs) : m \in FreeMsgSeqs \ {<<>>}}]})
NextLive ==
  \E c \in Clients :
    \/ Put(c) \/ PutStep(c)
    \/ Get(c) \/ BlockingPop(c) \/ BlockingTimeout(c)
SpecLive == InitLive /\ [][NextLive]_vars /\ \A c \in Clients : WF_vars(BlockingPop(c))

(* ------------------------- sequential claims -------------------------- *)
\* client c has made every call of its script and none raised
Done(c) ==
  /\ script[c] # <<>>
  /\ ip[c] > Len(script[c])
  /\ pc[c] = "idle"
  /\ result[c].exc = "none"
\* the values client c was handed, in order
OutVals(c) == [i \in 1..Len(outs[c]) |-> outs[c][i].val]
PutArgs(c) == script[c][1].msgs
PutHeadArgs(c) == script[c][2].msgs
DrainsByGet(c) == \A i \in 3..Len(script[c]) : script[c][i].op = "get"
DrainsByConsume(c) == Len(script[c]) = 3 /\ script[c][3].op = "consume"

\* C1: on an empty HotQueue used by one client, put(M...) followed by
\* len(M) calls of get returns the messages of M in their original order,
\* and no list is left afterwards.
C1_FifoOrder ==
  \A c \in Clients :
    (Done(c) /\ inst[c].cls = "HotQueue" /\ PutHeadArgs(c) = <<>> /\ DrainsByGet(c))
      => /\ OutVals(c) = PutArgs(c)
         /\ lrange(Key(c)) = <<>>
C1_Witness ==
  \E c \in Clients :
    /\ Done(c) /\ inst[c].cls = "HotQueue" /\ PutHeadArgs(c) = <<>> /\ DrainsByGet(c)
    /\ Len(PutArgs(c)) >= 2
    /\ PutArgs(c)[1] # PutArgs(c)[2]
    /\ Len(outs[c]) = Len(PutArgs(c))

\* C2: on an empty HotStack used by one client, put(M...) followed by
\* len(M) calls of get returns the messages of M in reverse order: every
\* pop takes the element at the tail, where put pushed it.
C2_LifoOrder ==
  \A c \in Clients :
    (inst[c].cls = "HotStack" /\ script[c] # <<>> /\ PutHeadArgs(c) = <<>> /\ DrainsByGet(c))
      => /\ Done(c) => OutVals(c) = Reverse(PutArgs(c)) /\ lrange(Key(c)) = <<>>
         /\ \A i \in 1..Len(outs[c]) :
              outs[c][i].val = PutArgs(c)[Len(PutArgs(c)) + 1 - i]
C2_Witness ==
  \E c \in Clients :
    /\ Done(c) /\ inst[c].cls = "HotStack" /\ PutHeadArgs(c) = <<>> /\ DrainsByGet(c)
    /\ Len(PutArgs(c)) >= 2
    /\ PutArgs(c)[1] # PutArgs(c)[2]
    /\ Len(outs[c]) = Len(PutArgs(c))

\* C6: on a HotQueue holding the messages P, put_head(m1, ..., mk) followed
\* by get calls returns mk, ..., m1 and only then the messages of P.
C6_PutHeadReversal ==
  \A c \in Clients :
    (Done(c) /\ inst[c].cls = "HotQueue" /\ DrainsByGet(c))
      => OutVals(c) = Reverse(PutHeadArgs(c)) \o PutArgs(c)
C6_Witness ==
  \E c \in Clients :
    /\ Done(c) /\ inst[c].cls = "HotQueue" /\ DrainsByGet(c)
    /\ Len(PutHeadArgs(c)) >= 2
    /\ PutHeadArgs(c)[1] # PutHeadArgs(c)[2]
    /\ PutArgs(c) # <<>>
    /\ Len(outs[c]) = Len(PutHeadArgs(c)) + Len(PutArgs(c))

\* the order in which pops take the messages client c pushed
PopOrder(c) ==
  IF inst[c].cls = "HotStack"
  THEN Reverse(Reverse(PutHeadArgs(c)) \o PutArgs(c))
  ELSE Reverse(PutHeadArgs(c)) \o PutArgs(c)

\* C7: iterating consume(block=False) or consume(timeout=t), t > 0, over a
\* pre-loaded list with no other client yields exactly the pre-loaded
\* messages in pop order and ends with the list empty.
C7_ConsumeDrains ==
  \A c \in Clients :
    (Done(c) /\ DrainsByConsume(c))
      => /\ OutVals(c) = PopOrder(c)
         /\ lrange(Key(c)) = <<>>

(* ------------------------- concurrent clients ------------------------- *)
\* Producers and consumers of one queue name run side by side.  Each
\* producer makes one put or put_head call with messages of its own, no
\* two alike; each consumer makes get calls, blocking or not, as many as
\* it likes.
Own(p) == [i \in 1..MaxMsgs |-> <<NProducers * (i - 1) + p>>]
OwnSeqs(p) == {SubSeq(Own(p), 1, n) : n \in 1..MaxMsgs}
ProducerMenu(p) == {Call(op, m, NoKwargs) : op \in {"put", "put_head"}, m \in OwnSeqs(p)}
ConsumerMenu ==
  {Call("get", <<>>, kw) :
     kw \in {NoKwargs, [block |-> TRUE], [block |-> TRUE, timeout |-> <<MaxTimeout>>]}}
ConcInsts ==
  {f \in [Clients -> {i \in Instances : i.name = "a" /\ i.serializer = "pickle"}] :
     \A p \in Producers : f[p].cls = "HotQueue"}
InitConc ==
  Constructed(ConcInsts,
              {[c \in Clients |-> <<>>]},
              {[c \in Clients |-> IF c \in Producers THEN 1 ELSE Unlimited]},
              {[c \in Clients |-> IF c \in Producers THEN ProducerMenu(c) ELSE ConsumerMenu]})
NextConc ==
  \E c \in Clients :
    \/ Put(c) \/ PutStep(c) \/ PutHead(c) \/ PutHeadStep(c)
    \/ Get(c) \/ BlockingPop(c) \/ BlockingTimeout(c)
SpecConc == InitConc /\ [][NextConc]_vars

(* --------------------------- free clients ----------------------------- *)
\* The first clients, as many as there are producers, each run a program
\* that calls put, put_head, get, clear and len as it likes, MaxCalls
\* times; their adapters may differ in name, class and serializer.
FreeInsts ==
  {f \in [Clients -> Instances] :
     /\ f[1].name = "a" /\ f[1].serializer = "pickle"
     /\ \A c \in Clients : f[c].cls = f[1].cls
     /\ \A c \in Consumers : f[c] = f[1]}
InitFree ==
  Constructed(FreeInsts,
              {[c \in Clients |-> <<>>]},
              {[c \in Clients |-> IF c \in Producers THEN MaxCalls ELSE 0]},
              {[c \in Clients |-> FreeCalls]})
Next ==
  \E c \in Clients :
    \/ Put(c) \/ PutStep(c) \/ PutHead(c) \/ PutHeadStep(c)
    \/ Get(c) \/ BlockingPop(c) \/ BlockingTimeout(c)
    \/ Clear(c) \/ Length(c)
Spec == InitFree /\ [][Next]_vars

(* ------------------------- concurrent claims -------------------------- *)
\* the messages get handed to the clients of key k, and the messages pushed
\* to it, as bags
ReturnedBag(k) ==
  LET E == UNION {{<<c, i>> : i \in 1..Len(outs[c])} : c \in {d \in Clients : Key(d) = k}}
      V == {outs[e[1]][e[2]].val : e \in E}
  IN [v \in V |-> Cardinality({e \in E : outs[e[1]][e[2]].val = v})]
PushedBag(k) ==
  LET V == {arrived[k][i].val : i \in DOMAIN arrived[k]}
  IN [v \in V |-> Cardinality({i \in DOMAIN arrived[k] : arrived[k][i].val = v})]
ProducersDone == \A p \in Producers : pc[p] = "idle" /\ budget[p] = 0

\* C3: with producers pushing messages no two of which are alike and
\* consumers popping side by side, every message get returns was pushed, no
\* message is returned by two get calls, and once the producers are done
\* and the list is empty the messages returned are exactly those pushed.
C3_ExactlyOnce ==
  \A k \in Keys :
    /\ \A v \in DOMAIN ReturnedBag(k) : ReturnedBag(k)[v] = 1 /\ v \in DOMAIN PushedBag(k)
    /\ (ProducersDone /\ llen(k) = 0) => ReturnedBag(k) = PushedBag(k)
C3_Witness ==
  LET k == key_for_name("a")
  IN /\ ProducersDone /\ llen(k) = 0
     /\ Len(arrived[k]) = NProducers * MaxMsgs
     /\ \E i \in 1..(Len(arrived[k]) - 2) :
          arrived[k][i].by = arrived[k][i + 2].by /\ arrived[k][i].by # arrived[k][i + 1].by
     /\ \A c \in Consumers : outs[c] # <<>>
     /\ ReturnedBag(k) = PushedBag(k)

\* C4: while no clear was issued for a key, len of an adapter of that key
\* is the number of messages pushed to it (by put or put_head) less the
\* number of pops that took one; it never falls below 0.
C4_LengthAccounting ==
  \A c \in Clients :
    ~cleared[Key(c)] =>
      /\ len(c) = Len(arrived[Key(c)]) - npop[Key(c)]
      /\ npop[Key(c)] <= Len(arrived[Key(c)])
C4_Witness ==
  \E c \in Clients :
    /\ ~cleared[Key(c)]
    /\ npop[Key(c)] >= 1
    /\ result[c].op = "len"
    /\ result[c].val = <<len(c)>>
    /\ len(c) >= 1

\* client c makes a call in this step
Called(c) == budget'[c] # budget[c] \/ ip'[c] # ip[c]

\* C5: a clear call raises nothing and leaves no list under the adapter's
\* key, whatever the list held and also when there was none, so that len
\* is 0 right after it; the lists of other keys stay as they were.
C5_ClearDeletes ==
  [][\A c \in Clients :
       (Called(c) /\ result'[c].op = "clear")
         => /\ result'[c].exc = "none"
            /\ Key(c) \notin DOMAIN store'
            /\ len(c)' = 0
            /\ \A k \in Keys \ {Key(c)} : lrange(k)' = lrange(k)]_vars
C5_Witness ==
  \E c \in Clients :
    /\ pc[c] = "idle" /\ result[c].op = "clear" /\ budget[c] = 0
    /\ Len(arrived[Key(c)]) >= 2
    /\ npop[Key(c)] = 0
    /\ Key(c) \notin DOMAIN store

\* C10: a non-blocking get on an empty or absent list, and a blocking get
\* whose timeout runs out, return None, raise nothing, and leave every list
\* as it was.
C10_EmptyGetReturnsNone ==
  [][\A c \in Clients :
       ((\/ Called(c) /\ result'[c].op = "get" /\ pc'[c] = "idle"
         \/ pc[c] = "get" /\ frame[c].via = "get" /\ pc'[c] = "idle")
        /\ len(c) = 0)
         => /\ result'[c] = [op |-> "get", val |-> None, exc |-> "none"]
            /\ store' = store]_vars
C10_Witness ==
  \E c \in Clients :
    /\ result[c] = [op |-> "get", val |-> None, exc |-> "none"]
    /\ arrived[Key(c)] = <<>>
    /\ \E k \in Keys \ {Key(c)} : llen(k) >= 2

(* -------------------------- iteration claims -------------------------- *)
\* C8: a KeyboardInterrupt that arrives while a consume sequence is being
\* iterated, inside get or while the consumer handles a yielded message,
\* ends the sequence and is not raised to the caller.
C8_InterruptEndsConsume ==
  \A c \in Clients :
    result[c].op \in {"consume", "worker"} => result[c].exc # "KeyboardInterrupt"

(* --------------------------- blocking claims -------------------------- *)
\* a blocking get with these keywords is given no finite timeout
WaitsForever(kw) == "timeout" \notin DOMAIN kw \/ kw.timeout \in {None, <<0>>}
Suspended(c) == pc[c] = "get" /\ WaitsForever(frame[c].kwargs)

\* C9: a blocking get with timeout unset, None or 0 stays suspended while
\* the list is empty, returns only with a message it popped, and, once the
\* list holds a message that nobody else takes, does return.
C9_BlockingGetWaits ==
  /\ [][\A c \in Clients :
          /\ (Suspended(c) /\ len(c) = 0) => pc'[c] = "get"
          /\ (Suspended(c) /\ pc'[c] # "get")
               => /\ npop'[Key(c)] = npop[Key(c)] + 1
                  /\ result'[c].exc = "none"
                  /\ Len(outs'[c]) = Len(outs[c]) + 1
                  /\ result'[c].val = Last(outs'[c]).val]_vars
  /\ \A c \in Clients : (Suspended(c) /\ len(c) > 0) ~> (pc[c] # "get" \/ len(c) = 0)
C9_Witness ==
  \E c \in Clients :
    /\ Suspended(c)
    /\ "timeout" \in DOMAIN frame[c].kwargs
    /\ frame[c].kwargs.timeout = None
    /\ frame[c].waited
    /\ len(c) > 0

(* ------------------------ producers' put calls ------------------------ *)
\* Every producer makes two put calls, one after the other, that push its
\* own messages, no two alike; one consumer of the same HotQueue makes get
\* calls, blocking or not, as many as it likes.
OwnCalls(p) == [i \in 1..(MaxMsgs + 1) |-> <<NProducers * (i - 1) + p>>]
OrderScriptsOf(p) ==
  {<<Call("put", SubSeq(OwnCalls(p), 1, n), NoKwargs),
     Call("put", SubSeq(OwnCalls(p), n + 1, MaxMsgs + 1), NoKwargs)>> : n \in 1..MaxMsgs}
OrderScripts ==
  {f \in [Clients -> {<<>>} \cup UNION {OrderScriptsOf(p) : p \in Producers}] :
     \A c \in Clients : IF c \in Producers THEN f[c] \in OrderScriptsOf(c) ELSE f[c] = <<>>}
OrderInsts == {[c \in Clients |-> HotQueue("a", "pickle")]}
InitOrder ==
  Constructed(OrderInsts,
              OrderScripts,
              {[c \in Clients |-> IF c = NProducers + 1 THEN Unlimited ELSE 0]},
              {[c \in Clients |-> ConsumerMenu]})
NextOrder ==
  \E c \in Clients :
    \/ Put(c) \/ PutStep(c)
    \/ Get(c) \/ BlockingPop(c) \/ BlockingTimeout(c)
SpecOrder == InitOrder /\ [][NextOrder]_vars

\* the messages producer p passes to its put calls, in call and argument order
Intended(p) == script[p][1].msgs \o script[p][2].msgs
IsPrefix(s, t) == Len(s) <= Len(t) /\ s = SubSeq(t, 1, Len(s))
\* the values of the pushes by p among the pushes that reached key k, in order
ArrivedFrom(k, p) ==
  LET by == SelectSeq(arrived[k], LAMBDA e : e.by = p)
  IN [i \in 1..Len(by) |-> by[i].val]
\* the messages of producer p among those client c was handed, in order
ReceivedFrom(c, p) ==
  SelectSeq(OutVals(c), LAMBDA v : \E i \in 1..Len(Intended(p)) : Intended(p)[i] = v)

\* C11: with producers calling put side by side, the list is at every
\* moment the pushes that reached Redis, in the order they reached it, less
\* the ones popped from its head; the pushes of one producer reached it in
\* that producer's call and argument order; and the one FIFO consumer is
\* handed each producer's messages in that producer's order.
C11_ProducerOrder ==
  /\ \A k \in Keys :
       /\ llen(k) = Len(arrived[k]) - npop[k]
       /\ \A i \in 1..llen(k) : loads("pickle", lrange(k)[i]) = arrived[k][npop[k] + i].val
  /\ \A p \in Producers :
       /\ IsPrefix(ArrivedFrom(Key(p), p), Intended(p))
       /\ \A c \in Consumers : IsPrefix(ReceivedFrom(c, p), Intended(p))
C11_Witness ==
  LET k == key_for_name("a")
  IN /\ \A p \in Producers : ArrivedFrom(k, p) = Intended(p) /\ pc[p] = "idle"
     /\ \E i \in 1..(Len(arrived[k]) - 2) :
          arrived[k][i].by = arrived[k][i + 2].by /\ arrived[k][i].by # arrived[k][i + 1].by
     /\ \E c \in Consumers : Len(outs[c]) = Len(arrived[k]) /\ Len(outs[c]) = NProducers * (MaxMsgs + 1)


(* ------------------------------ workers ------------------------------- *)
\* Clients 1 and 2, each with a HotQueue of its own name, push the same
\* messages and then run the same get arguments, each in one of three ways:
\* the wrapper of @queue.worker given the handler directly, the wrapper of
\* the decorator that worker(**kwargs) returns, or a loop over consume.
DrainKwargs ==
  {[block |-> FALSE], [timeout |-> <<MaxTimeout>>], [block |-> TRUE, timeout |-> <<MaxTimeout>>]}
Drains(kw) ==
  {Call("worker", <<handler>>, kw), Call("worker", <<>>, kw), Call("consume", <<>>, kw)}
WorkScripts ==
  UNION {{[c \in Clients |-> IF c = 1 THEN <<Call("put", m, NoKwargs), d1>>
                             ELSE IF c = 2 THEN <<Call("put", m, NoKwargs), d2>> ELSE <<>>] :
            d1 \in Drains(kw), d2 \in Drains(kw)} : m \in MsgSeqs, kw \in DrainKwargs}
WorkInsts == {[c \in Clients |-> IF c = 1 THEN HotQueue("a", "pickle") ELSE HotQueue("b", "pickle")]}
InitWork ==
  Constructed(WorkInsts, WorkScripts, {[c \in Clients |-> 0]}, {[c \in Clients |-> {}]})
NextWork ==
  \E c \in Clients :
    \/ Put(c) \/ PutStep(c)
    \/ Consume(c) \/ Worker(c) \/ ConsumeGet(c) \/ Resume(c)
    \/ BlockingPop(c) \/ BlockingTimeout(c)
SpecWork == InitWork /\ [][NextWork]_vars

\* client c's script ends with a call of its wrapper
RunsWorker(c) == Len(script[c]) = 2 /\ script[c][2].op = "worker"

\* C12: the wrapper calls the handler once with every message its consume
\* sequence yields, in pop order, and with nothing else; it returns only
\* when the sequence has ended, on a get that returned None; and run on
\* the same messages with the same get arguments, the wrapper of either form
\* and a plain loop over consume hand over the same messages and leave
\* the same list.
C12_WorkerDrivesConsume ==
  /\ [](\A c \in Clients :
          RunsWorker(c) =>
            /\ \A i \in 1..Len(outs[c]) : outs[c][i].via = "worker"
            /\ Len(outs[c]) <= npop[Key(c)]
            /\ IsPrefix(OutVals(c), PutArgs(c)))
  /\ [](\A c, d \in {1, 2} :
          (Done(c) /\ Done(d))
            => OutVals(c) = OutVals(d) /\ lrange(Key(c)) = lrange(Key(d)))
  /\ [][\A c \in Clients :
          (frame[c].via = "worker" /\ pc'[c] = "idle")
            => /\ pc[c] \in {"consume", "get"}
               /\ result'[c] = [op |-> "worker", val |-> None, exc |-> "none"]
               /\ outs' = outs]_vars
C12_Witness ==
  /\ Done(1) /\ Done(2)
  /\ script[1][2] = Call("worker", <<handler>>, [timeout |-> <<MaxTimeout>>])
  /\ script[2][2] = Call("worker", <<>>, [timeout |-> <<MaxTimeout>>])
  /\ Len(outs[1]) = MaxMsgs /\ Len(outs[2]) = MaxMsgs
  /\ OutVals(1)[1] # OutVals(1)[2]


(* --------------------------- naming claims ---------------------------- *)
\* client c takes a step
Acted(c) ==
  \/ pc'[c] # pc[c] \/ frame'[c] # frame[c] \/ result'[c] # result[c]
  \/ budget'[c] # budget[c] \/ ip'[c] # ip[c]

\* C13: two adapters work on the same list exactly when they were given the
\* same name, the list of name n being the one under the key hotqueue:n;
\* every message get returns was pushed through an adapter of the same
\* name; and a step of put, put_head, get, clear or len through an adapter
\* leaves the list of every other name as it was.
C13_NameIsIdentity ==
  /\ [](\A c, d \in Clients :
          /\ Key(c) = "hotqueue:" \o inst[c].name
          /\ (Key(c) = Key(d)) <=> (inst[c].name = inst[d].name))
  /\ [](\A c \in Clients : \A i \in 1..Len(outs[c]) :
          \E j \in 1..Len(arrived[Key(c)]) :
            /\ arrived[Key(c)][j].val = outs[c][i].val
            /\ inst[arrived[Key(c)][j].by].name = inst[c].name)
  /\ [][\A c \in Clients :
          Acted(c) =>
            \A n \in Names \ {inst[c].name} :
              lrange(key_for_name(n))' = lrange(key_for_name(n))]_vars
C13_Witness ==
  \E c, d \in Clients :
    /\ c # d /\ inst[c].name = inst[d].name
    /\ Len(outs[d]) >= 2
    /\ \A j \in 1..Len(arrived[Key(d)]) : arrived[Key(d)][j].by = c


(* ------------------------- consume's default -------------------------- *)
\* Every consumer iterates consume once, with or without a block argument
\* and with or without a timeout; every producer may make one put.
ConsumeKwargs ==
  {NoKwargs, [block |-> FALSE], [block |-> TRUE], [timeout |-> None], [timeout |-> <<0>>],
   [timeout |-> <<MaxTimeout>>], [block |-> FALSE, timeout |-> <<MaxTimeout>>]}
DefaultScripts ==
  {[c \in Clients |-> IF c \in Consumers THEN <<Call("consume", <<>>, kws[c])>> ELSE <<>>] :
     kws \in [Consumers -> ConsumeKwargs]}
DefaultInsts == {[c \in Clients |-> HotQueue("a", "pickle")]}
InitDefault ==
  Constructed(DefaultInsts,
              DefaultScripts,
              {[c \in Clients |-> IF c \in Producers THEN 1 ELSE 0]},
              {[c \in Clients |-> {Call("put", m, NoKwargs) : m \in FreeMsgSeqs}]})
NextDefault ==
  \E c \in Clients :
    \/ Put(c) \/ PutStep(c)
    \/ Consume(c) \/ ConsumeGet(c) \/ Resume(c)
    \/ BlockingPop(c) \/ BlockingTimeout(c)
SpecDefault == InitDefault /\ [][NextDefault]_vars

\* the keywords client c passed to the consume call it has made
Passed(c) == script[c][1].kwargs
Consuming(c) == script[c] # <<>> /\ ip[c] > 1

\* C14: consume runs get with the block value it was passed, and with True
\* when it was passed none.  Passed no block and no finite timeout, on a
\* list no push ever reached, it neither ends nor yields, and once
\* suspended in its blocking get it stays there.  Passed block=False, its
\* get on an empty list ends it at once with nothing more yielded.
C14_ConsumeBlocksByDefault ==
  /\ [](\A c \in Clients :
          (Consuming(c) /\ frame[c].via = "consume")
            => frame[c].kwargs.block =
                 (IF "block" \in DOMAIN Passed(c) THEN Passed(c).block ELSE TRUE))
  /\ [](\A c \in Clients :
          (Consuming(c) /\ "block" \notin DOMAIN Passed(c) /\ WaitsForever(Passed(c))
             /\ arrived[Key(c)] = <<>>)
            => pc[c] \in {"consume", "get"} /\ outs[c] = <<>>)
  /\ [][\A c \in Clients :
          /\ (Consuming(c) /\ "block" \notin DOMAIN Passed(c) /\ WaitsForever(Passed(c))
                /\ pc[c] = "get" /\ len(c) = 0)
               => pc'[c] = "get"
          /\ (Consuming(c) /\ "block" \in DOMAIN Passed(c) /\ ~Passed(c).block
                /\ pc[c] = "consume" /\ Acted(c) /\ len(c) = 0)
               => /\ pc'[c] = "idle"
                  /\ result'[c] = [op |-> "consume", val |-> None, exc |-> "none"]
                  /\ outs'[c] = outs[c]]_vars
C14_Witness ==
  \E c, d \in Clients :
    /\ Consuming(c) /\ Passed(c) = NoKwargs
    /\ pc[c] = "get" /\ frame[c].waited /\ arrived[Key(c)] = <<>>
    /\ Consuming(d) /\ Passed(d) = [block |-> FALSE]
    /\ Done(d) /\ outs[d] = <<>>


(* ---------------------------- failing put ----------------------------- *)
\* The RPUSH of put's loop does not reach Redis: the client library raises
\* its connection error, which put does not catch.  The message was
\* serialized before the command was tried.
PutFails(c) ==
  /\ pc[c] = "put"
  /\ CanDump(Ser(c), Head(frame[c].msgs))
  /\ Raise(c, "put", "StoreError")
  /\ UNCHANGED <<store, inst, outs, script, ip, budget, menu, arrived, npop, cleared>>

\* Every producer makes one put call, with any messages, some of which may
\* not be serializable; any push may fail to reach Redis; nobody pops.
FailScripts ==
  {[c \in Clients |-> IF c \in Producers THEN <<Call("put", ms[c], NoKwargs)>> ELSE <<>>] :
     ms \in [Producers -> MsgSeqs]}
FailInsts == {[c \in Clients |-> HotQueue("a", "pickle")]}
InitFail ==
  Constructed(FailInsts, FailScripts, {[c \in Clients |-> 0]}, {[c \in Clients |-> {}]})
NextFail ==
  \E c \in Clients :
    \/ Put(c) \/ PutStep(c) \/ PutFails(c)
SpecFail == InitFail /\ [][NextFail]_vars

\* C15: a put whose serialization or push fails at message i raises the
\* error to the caller in the step that fails, which changes no list and
\* ends the call; the messages before i were pushed, in order, and are in
\* the list; message i and those after it are never pushed.
C15_FailingPut ==
  /\ [](\A p \in Producers :
          LET M == script[p][1].msgs
              A == ArrivedFrom(Key(p), p)
          IN /\ IsPrefix(A, M)
             /\ \A i \in 1..Len(A) : M[i] # Unencodable
             /\ result[p].exc = "SerializationError"
                  => pc[p] = "idle" /\ Len(A) < Len(M) /\ M[Len(A) + 1] = Unencodable
             /\ result[p].exc = "StoreError"
                  => pc[p] = "idle" /\ Len(A) < Len(M) /\ M[Len(A) + 1] # Unencodable)
  /\ [](\A k \in Keys :
          /\ llen(k) = Len(arrived[k])
          /\ \A i \in 1..llen(k) : lrange(k)[i] = dumps("pickle", arrived[k][i].val))
  /\ [][\A p \in Producers :
          /\ (pc[p] = "put" /\ result'[p].exc # "none")
               => store' = store /\ arrived' = arrived /\ pc'[p] = "idle"
          /\ result[p].exc # "none"
               => ArrivedFrom(Key(p), p)' = ArrivedFrom(Key(p), p)]_vars
C15_Witness ==
  \E p, q \in Producers :
    /\ result[p].exc = "SerializationError" /\ ArrivedFrom(Key(p), p) # <<>>
    /\ result[q].exc = "StoreError" /\ ArrivedFrom(Key(q), q) # <<>>
    /\ llen(Key(p)) = 2


(* ----------------------- mismatched serializers ----------------------- *)
\* Producers and consumers of one HotQueue name, each constructed with a
\* serializer of its own choice.  Each producer makes one put with messages
\* of its own, no two alike; each consumer makes get calls, blocking or
\* not, as many as it likes, whatever the calls before raised.
MismatchInsts ==
  {f \in [Clients -> {HotQueue("a", ser) : ser \in Serializers}] : f[1].serializer = "pickle"}
InitMismatch ==
  Constructed(MismatchInsts,
              {[c \in Clients |-> <<>>]},
              {[c \in Clients |-> IF c \in Producers THEN 1 ELSE Unlimited]},
              {[c \in Clients |-> IF c \in Producers
                                  THEN {Call("put", m, NoKwargs) : m \in OwnSeqs(c)}
                                  ELSE ConsumerMenu]})
NextMismatch ==
  \E c \in Clients :
    \/ Put(c) \/ PutStep(c)
    \/ Get(c) \/ BlockingPop(c) \/ BlockingTimeout(c)
SpecMismatch == InitMismatch /\ [][NextMismatch]_vars

\* message v is in the list of key k; was handed to some client
InList(k, v) == \E i \in 1..llen(k) : lrange(k)[i][2] = v
Returned(v) == \E c \in Clients : \E i \in 1..Len(outs[c]) : outs[c][i].val = v
\* message v was pushed to key k, is no longer in its list, and no get
\* has returned it
Lost(k, v) ==
  /\ \E j \in 1..Len(arrived[k]) : arrived[k][j].val = v
  /\ ~InList(k, v)
  /\ ~Returned(v)
\* the same of the state a step leads to, for a message v of the state it
\* starts from
LostNext(k, v) ==
  /\ \E j \in 1..Len(arrived'[k]) : arrived'[k][j].val = v
  /\ ~\E i \in 1..llen(k)' : lrange(k)'[i][2] = v
  /\ ~\E c \in Clients : \E i \in 1..Len(outs'[c]) : outs'[c][i].val = v

\* C16: every pop takes one element off the list, and either the get that
\* made it returns the message, or its serializer cannot decode it, the
\* get raises DeserializationError to its caller, and the message is lost:
\* gone from the list and, from then on, returned by no get.  A get raises
\* that error only having removed such a message.
C16_LostOnDecodeFailure ==
  /\ [][\A k \in Keys :
          npop'[k] # npop[k] =>
            LET raw == Head(lrange(k))
            IN /\ npop'[k] = npop[k] + 1
               /\ llen(k)' = llen(k) - 1
               /\ \/ \E c \in Clients :
                       /\ Key(c) = k /\ CanLoad(Ser(c), raw)
                       /\ outs' = [outs EXCEPT ![c] = Append(@, [val |-> raw[2], via |-> "get"])]
                  \/ /\ outs' = outs
                     /\ LostNext(k, raw[2])
                     /\ \E c \in Clients :
                          /\ Key(c) = k /\ ~CanLoad(Ser(c), raw)
                          /\ pc'[c] = "idle"
                          /\ result'[c] = [op |-> "get", val |-> None,
                                           exc |-> "DeserializationError"]]_vars
  /\ [][\A k \in Keys : \A j \in 1..Len(arrived[k]) :
          Lost(k, arrived[k][j].val) => LostNext(k, arrived[k][j].val)]_vars
  /\ [](\A c \in Clients :
          result[c].exc = "DeserializationError" =>
            \E j \in 1..Len(arrived[Key(c)]) :
              /\ Lost(Key(c), arrived[Key(c)][j].val)
              /\ inst[arrived[Key(c)][j].by].serializer # Ser(c))
C16_Witness ==
  \E c, d \in Consumers :
    /\ c # d /\ Ser(c) # Ser(d)
    /\ result[c].exc = "DeserializationError"
    /\ result[d].op = "get" /\ result[d].exc = "none" /\ result[d].val = None
    /\ llen(Key(c)) = 0
    /\ \E j \in 1..Len(arrived[Key(c)]) : Lost(Key(c), arrived[Key(c)][j].val)
    /\ outs[d] # <<>>


(* ------------------------- the empty result --------------------------- *)
\* C17: no get that took a message off the list returned None, and a
\* consume sequence that has ended yielded every message its gets took off
\* the list: it ended on a pop that found the list empty.
C17_NoneMeansEmpty ==
  \A c \in Clients :
    /\ \A i \in 1..Len(outs[c]) : outs[c][i].val # None
    /\ (Done(c) /\ DrainsByConsume(c)) => Len(outs[c]) = npop[Key(c)]


(* ------------------------- multi-message put -------------------------- *)
\* C18: a put or put_head call with several messages pushes them by
\* separate commands: no step adds more than one message to a list, and
\* while the call runs the messages it has pushed followed by those it has
\* still to push are the messages it was called with, in order.
C18_PutIsNotAtomic ==
  /\ [][\A k \in Keys : Len(arrived'[k]) <= Len(arrived[k]) + 1 /\ llen(k)' <= llen(k) + 1]_vars
  /\ [](\A p \in Producers :
          /\ ArrivedFrom(Key(p), p) \o frame[p].msgs \in OwnSeqs(p) \cup {<<>>}
          /\ pc[p] \in {"put", "put_head"} => frame[p].msgs # <<>>)
\* a put in progress: its first message was pushed and has been handed to a
\* consumer, another producer's message reached the list after it, and
\* its second message is still to be pushed
C18_Witness ==
  \E p, q \in Producers :
    LET k == Key(p)
    IN /\ p # q /\ Key(q) = k
       /\ pc[p] = "put" /\ Len(frame[p].msgs) = 1
       /\ Len(arrived[k]) = 2
       /\ arrived[k][1].by = p /\ arrived[k][2].by = q
       /\ \E c \in Consumers : OutVals(c) = <<arrived[k][1].val>>
       /\ llen(k) = 1


(* ------------------------ put_head on a stack ------------------------- *)
\* Client 1 alone, on a HotStack: put(P), put_head(H), put(Q), and then as
\* many get calls, blocking or not, as it pushed messages.
StackFills ==
  {<<Call("put", m[1], NoKwargs), Call("put_head", m[2], NoKwargs), Call("put", m[3], NoKwargs)>> :
     m \in {n \in MsgSeqs \X MsgSeqs \X MsgSeqs : Len(n[1]) + Len(n[2]) + Len(n[3]) <= MaxMsgs + 1}}
StackScripts ==
  {f \o Gets(Len(f[1].msgs) + Len(f[2].msgs) + Len(f[3].msgs), kw) :
     f \in StackFills, kw \in {NoKwargs, [block |-> TRUE]}}
StackInsts == {[c \in Clients |-> IF c = 1 THEN HotStack("a", "pickle") ELSE HotQueue("b", "pickle")]}
InitStack ==
  Constructed(StackInsts, OnlyClient1(StackScripts), {[c \in Clients |-> 0]}, {[c \in Clients |-> {}]})
NextStack ==
  \E c \in Clients :
    \/ Put(c) \/ PutStep(c) \/ PutHead(c) \/ PutHeadStep(c)
    \/ Get(c) \/ BlockingPop(c)
SpecStack == InitStack /\ [][NextStack]_vars

LaterPutArgs(c) == script[c][3].msgs

\* C19: on a HotStack, after put(P), put_head(H), put(Q), the gets return
\* the messages of Q last-first, then those of P last-first, and only then
\* the messages of H, these in the order they were given: a message added
\* with put_head comes after everything the list held and everything put
\* added later, and a stack filled by put_head alone is first-in-first-out.
C19_PutHeadOnStack ==
  \A c \in Clients :
    script[c] # <<>> =>
      LET expected == Reverse(LaterPutArgs(c)) \o Reverse(PutArgs(c)) \o PutHeadArgs(c)
      IN /\ IsPrefix(OutVals(c), expected)
         /\ Done(c) => OutVals(c) = expected /\ lrange(Key(c)) = <<>>
C19_Witness ==
  \E c \in Clients :
    /\ Done(c) /\ inst[c].cls = "HotStack"
    /\ Len(PutHeadArgs(c)) >= 2 /\ PutHeadArgs(c)[1] # PutHeadArgs(c)[2]
    /\ LaterPutArgs(c) # <<>>
    /\ Len(outs[c]) = Len(PutHeadArgs(c)) + Len(LaterPutArgs(c))


====
